---- MODULE Spec2Model ----
(***************************************************************************)
(* A model of camera-trap-classifier:                                      *)
(*   - data_processing/data_inventory.py  (class DatasetInventory)         *)
(*   - camera_trap_classifier/train.py    (main, the training pipeline)    *)
(*                                                                         *)
(* Python dictionaries keep insertion order; they are modelled as          *)
(* sequences of entries with distinct keys.  None is the string "None".    *)
(* Fractions are pairs <<numerator, denominator>> with a positive          *)
(* denominator, so that int(n * p) is computed exactly.                    *)
(***************************************************************************)
EXTENDS Integers, Sequences, FiniteSets, TLC

\* ------------------------------------------------------------------ bounds
MaxIds == 3
MaxLabels == 2
PDen == 4
MaxCkpts == 3
MaxEpochs == 4
MaxPatience == 2
MaxLoss == 3

\* ------------------------------------------------------------- state
VARIABLES
    data_inventory,   \* DatasetInventory.data_inventory: <<[id, labels, meta]>>
    pre_inventory,    \* history: data_inventory when the last call started
    last_call,        \* history: [op, arg] of the last DatasetInventory call
    raised,           \* history: exception the last call raised, or "None"
    stats_log,        \* what log_stats passed to logging.info
    argv,             \* history: args as parse_args returned it
    args,             \* train.main: the parsed command line (args[...])
    config_cfg,       \* train.main: config.cfg, the loaded config.yaml
    model_dir,        \* the .hdf5 files of the directory model_to_load names
    image_processing, \* train.main: the image_processing dictionary
    pc,               \* train.main: the section of main that runs next
    run_error,        \* [stage, exception] that ended main, or NoError
    stage_log,        \* history: the stages of the run, as they were entered
    fs,               \* the files main wrote: path -> content
    train             \* model.fit: epoch, callbacks' state, loss history

inv_vars == <<data_inventory, pre_inventory, last_call, raised, stats_log>>

run_vars == <<argv, args, config_cfg, model_dir, image_processing, pc, run_error,
              stage_log, fs, train>>

vars == <<inv_vars, run_vars>>

\* -------------------------------------------------------- generic helpers
Range(s) == {s[i] : i \in DOMAIN s}

IsInjective(s) == \A i, j \in DOMAIN s : s[i] = s[j] => i = j

\* all sequences over S of length lo..hi
SeqsOf(S, lo, hi) == UNION {[1..n -> S] : n \in lo..hi}

\* all sequences of distinct elements of S of length lo..hi
DistinctSeqsOf(S, lo, hi) == {s \in SeqsOf(S, lo, hi) : IsInjective(s)}

RECURSIVE SumSeq(_)
SumSeq(s) == IF s = <<>> THEN 0 ELSE Head(s) + SumSeq(Tail(s))

\* Python int(a / b) for b > 0: truncation toward zero
IntTrunc(a, b) == IF a >= 0 THEN a \div b ELSE -((-a) \div b)

\* mathematical floor(a / b) for b > 0
Floor(a, b) == a \div b

\* --------------------------------------------------------- the inventory
Ids == 1..MaxIds

LabelTypes == {"species", "behavior"}

\* the order in which v['labels'].items() yields the label types of a record
LabelTypeOrder == <<"species", "behavior">>

LabelValues == [species |-> {"a", "b", "c"}, behavior |-> {"x"}]

\* the label lists a record may carry for a label type: non-empty, distinct
LabelLists(t) == DistinctSeqsOf(LabelValues[t], 1, MaxLabels)

\* the 'labels' entry of a record: every label type of the inventory
Labels == {l \in [LabelTypes -> UNION {LabelLists(t) : t \in LabelTypes}] :
             \A t \in LabelTypes : l[t] \in LabelLists(t)}

\* an entry of the data_inventory dictionary: key 'id', value {labels, meta}
Entry(i, l) == [id |-> i, labels |-> l, meta |-> i]

keys(inv) == [k \in DOMAIN inv |-> inv[k].id]

IdSet(inv) == {inv[k].id : k \in DOMAIN inv}

\* self.data_inventory[id]
Lookup(inv, id) == inv[CHOOSE k \in DOMAIN inv : inv[k].id = id]

\* the fractions p_keep = num / PDen the callers pass
PKeeps == {<<num, PDen>> : num \in (-2 * PDen)..(2 * PDen)}

\* random.sample(population, k): every sequence of k distinct members,
\* ValueError when k < 0 or k > len(population)
random_sample(population, k) ==
    IF k < 0 \/ k > Len(population)
      THEN {[raised |-> "ValueError", value |-> <<>>]}
      ELSE {[raised |-> "None", value |-> s] :
              s \in DistinctSeqsOf(Range(population), k, k)}

\* a bug the sampling could have: rounding to the nearest count
randomly_remove_samples_to_percent_rounding(inv, p_keep) ==
    LET n_total   == Len(inv)
        n_choices == (2 * n_total * p_keep[1] + p_keep[2]) \div (2 * p_keep[2])
    IN  IF ~(p_keep[1] <= p_keep[2])
          THEN {[raised |-> "ValueError", inv |-> inv]}
          ELSE {IF c.raised # "None"
                  THEN [raised |-> c.raised, inv |-> inv]
                  ELSE [raised |-> "None",
                        inv |-> [k \in DOMAIN c.value |-> Lookup(inv, c.value[k])]] :
                c \in random_sample(keys(inv), n_choices)}

\* DatasetInventory.randomly_remove_samples_to_percent: the outcomes of a call
randomly_remove_samples_to_percent(inv, p_keep) ==
    LET all_ids   == keys(inv)
        n_total   == Len(all_ids)
        n_choices == IntTrunc(n_total * p_keep[1], p_keep[2])
    IN  IF ~(p_keep[1] <= p_keep[2])
          THEN {[raised |-> "ValueError", inv |-> inv]}
          ELSE {IF c.raised # "None"
                  THEN [raised |-> c.raised, inv |-> inv]
                  ELSE [raised |-> "None",
                        inv |-> [k \in DOMAIN c.value |-> Lookup(inv, c.value[k])]] :
                c \in random_sample(all_ids, n_choices)}

\* a bug the removal could have: dict.pop without a default raises KeyError
remove_record_no_default(inv, id_to_remove) ==
    IF id_to_remove \in IdSet(inv)
      THEN [raised |-> "None",
            inv |-> SelectSeq(inv, LAMBDA e : e.id # id_to_remove)]
      ELSE [raised |-> "KeyError", inv |-> inv]

\* DatasetInventory.remove_record: self.data_inventory.pop(id_to_remove, None)
remove_record(inv, id_to_remove) ==
    [raised |-> "None",
     inv |-> SelectSeq(inv, LAMBDA e : e.id # id_to_remove)]

\* ------------------------------------------------------------ log_stats
\* label_stats[label_type] is a dictionary label -> count, kept as a sequence
\* of [label, count] in insertion order

HasLabel(counts, label) == \E k \in DOMAIN counts : counts[k].label = label

\* lines 87-89: if label not in dict: dict[label] = 0; dict[label] += 1
CountLabel(counts, label) ==
    IF HasLabel(counts, label)
      THEN [k \in DOMAIN counts |->
              IF counts[k].label = label
                THEN [counts[k] EXCEPT !.count = @ + 1]
                ELSE counts[k]]
      ELSE Append(counts, [label |-> label, count |-> 1])

\* a bug the counting could have: only the first label of a list is counted
CountLabels_first_only(counts, label_list) ==
    IF label_list = <<>> THEN counts ELSE CountLabel(counts, Head(label_list))

\* lines 86-89: for label in label_list
RECURSIVE CountLabels(_, _)
CountLabels(counts, label_list) ==
    IF label_list = <<>>
      THEN counts
      ELSE CountLabels(CountLabel(counts, Head(label_list)), Tail(label_list))

\* lines 78-89 for one (label_type, label_list) item of a record
CountItem(st, label_type, label_list) ==
    LET seen  == label_type \in DOMAIN st.label_stats
        ls0   == IF seen THEN st.label_stats[label_type] ELSE <<>>
        lts0  == IF seen THEN st.label_type_stats[label_type] ELSE 0
        lts1  == IF Len(label_list) > 1 THEN lts0 + 1 ELSE lts0
        ls1   == CountLabels(ls0, label_list)
        types == DOMAIN st.label_stats \cup {label_type}
    IN  [label_stats |->
           [t \in types |-> IF t = label_type THEN ls1 ELSE st.label_stats[t]],
         label_type_stats |->
           [t \in types |-> IF t = label_type THEN lts1 ELSE st.label_type_stats[t]],
         order |-> IF seen THEN st.order ELSE Append(st.order, label_type)]

\* line 77: for label_type, label_list in v['labels'].items()
RECURSIVE CountRecord(_, _, _)
CountRecord(st, labels, types) ==
    IF types = <<>>
      THEN st
      ELSE CountRecord(
             IF Head(types) \in DOMAIN labels
               THEN CountItem(st, Head(types), labels[Head(types)])
               ELSE st,
             labels, Tail(types))

\* lines 73-89: the pass over self.data_inventory.items()
RECURSIVE CountInventory(_, _)
CountInventory(st, inv) ==
    IF inv = <<>>
      THEN st
      ELSE CountInventory(CountRecord(st, Head(inv).labels, LabelTypeOrder),
                          Tail(inv))

EmptyStats == [label_stats |-> <<>>, label_type_stats |-> <<>>, order |-> <<>>]

MaxOf(S) == CHOOSE m \in S : \A x \in S : x <= m

MinOf(S) == CHOOSE m \in S : \A x \in S : m <= x

\* a bug the ordering could have: an ascending sort, reversed, which turns
\* the order of equal counts around
RECURSIVE sorted_reverse_unstable(_, _)
sorted_reverse_unstable(idxs, count_list) ==
    IF idxs = {}
      THEN <<>>
      ELSE LET top   == MaxOf({count_list[k] : k \in idxs})
               first == MaxOf({k \in idxs : count_list[k] = top})
           IN  <<first>> \o sorted_reverse_unstable(idxs \ {first}, count_list)

\* lines 99-100: sorted(range(len(count_list)), reverse=True, key=count_list[k])
\* sorted is stable, also with reverse=True: equal keys keep their order
RECURSIVE sorted_reverse(_, _)
sorted_reverse(idxs, count_list) ==
    IF idxs = {}
      THEN <<>>
      ELSE LET top   == MaxOf({count_list[k] : k \in idxs})
               first == MinOf({k \in idxs : count_list[k] = top})
           IN  <<first>> \o sorted_reverse(idxs \ {first}, count_list)

\* lines 93-106 for one label type: the lines logged, in order
\* (the percentage of a line is count / total and is left out)
StatLines(label_type, labels) ==
    LET label_list   == [k \in DOMAIN labels |-> labels[k].label]
        count_list   == [k \in DOMAIN labels |-> labels[k].count]
        total_counts == SumSeq(count_list)
        sort_index   == sorted_reverse(DOMAIN count_list, count_list)
    IN  [n \in DOMAIN sort_index |->
           [label_type |-> label_type,
            label      |-> label_list[sort_index[n]],
            records    |-> count_list[sort_index[n]],
            total      |-> total_counts]]

RECURSIVE AllStatLines(_, _)
AllStatLines(st, types) ==
    IF types = <<>>
      THEN <<>>
      ELSE StatLines(Head(types), st.label_stats[Head(types)])
             \o AllStatLines(st, Tail(types))

\* DatasetInventory.log_stats: everything it logs
log_stats(inv) ==
    LET st == CountInventory(EmptyStats, inv)
    IN  [records  |-> AllStatLines(st, st.order),
         multiple |-> [k \in DOMAIN st.order |->
                         [label_type |-> st.order[k],
                          records    |-> st.label_type_stats[st.order[k]]]]]

\* ------------------------------------------------ inventory: the actions
NoCall == [op |-> "none", arg |-> 0]

NoLog == [records |-> <<>>, multiple |-> <<>>]

\* the record contents of the inventories of SpecInventory
RecordPool ==
    {[species |-> <<"a">>, behavior |-> <<"x">>],
     [species |-> <<"b", "a">>, behavior |-> <<"x">>]}

\* inventories as the importer leaves them: some ids, in ascending order
RECURSIVE InventoriesUpTo(_, _)
InventoriesUpTo(n, pool) ==
    IF n = 0
      THEN {<<>>}
      ELSE LET rest == InventoriesUpTo(n - 1, pool)
           IN  rest \cup {Append(inv, Entry(n, l)) : inv \in rest, l \in pool}

\* inventories with the ids 1..n for some n <= MaxIds
RECURSIVE InventoriesOfLen(_, _)
InventoriesOfLen(n, pool) ==
    IF n = 0
      THEN {<<>>}
      ELSE {Append(inv, Entry(n, l)) : inv \in InventoriesOfLen(n - 1, pool), l \in pool}

\* main is not running while the inventory is being worked on
RunNotStarted ==
    /\ argv = <<>> /\ args = <<>> /\ config_cfg = <<>> /\ model_dir = {}
    /\ image_processing = <<>> /\ pc = "not_started" /\ run_error = <<>>
    /\ stage_log = <<>> /\ fs = <<>> /\ train = <<>>

InitInventory ==
    /\ RunNotStarted
    /\ data_inventory \in InventoriesUpTo(MaxIds, RecordPool)
    /\ pre_inventory = data_inventory
    /\ last_call = NoCall
    /\ raised = "None"
    /\ stats_log = NoLog

InitStats ==
    /\ RunNotStarted
    /\ data_inventory \in UNION {InventoriesOfLen(n, Labels) : n \in 0..MaxIds}
    /\ pre_inventory = data_inventory
    /\ last_call = NoCall
    /\ raised = "None"
    /\ stats_log = NoLog

Sample(p_keep) ==
    \E out \in randomly_remove_samples_to_percent(data_inventory, p_keep) :
        /\ data_inventory' = out.inv
        /\ raised' = out.raised
        /\ pre_inventory' = data_inventory
        /\ last_call' = [op |-> "randomly_remove_samples_to_percent", arg |-> p_keep]
        /\ UNCHANGED <<stats_log, run_vars>>

Remove(id_to_remove) ==
    LET out == remove_record(data_inventory, id_to_remove)
    IN  /\ data_inventory' = out.inv
        /\ raised' = out.raised
        /\ pre_inventory' = data_inventory
        /\ last_call' = [op |-> "remove_record", arg |-> id_to_remove]
        /\ UNCHANGED <<stats_log, run_vars>>

LogStats ==
    /\ stats_log' = log_stats(data_inventory)
    /\ raised' = "None"
    /\ pre_inventory' = data_inventory
    /\ last_call' = [op |-> "log_stats", arg |-> 0]
    /\ UNCHANGED <<data_inventory, run_vars>>

NextInventory ==
    \/ \E p_keep \in PKeeps : Sample(p_keep)
    \/ \E id \in Ids \cup {MaxIds + 1} : Remove(id)

SpecInventory == InitInventory /\ [][NextInventory]_vars

NextStats == last_call = NoCall /\ LogStats

SpecStats == InitStats /\ [][NextStats]_vars

\* ------------------------------------------------- create_from_source
\* the 'labels' a record may have as the importer returns it: a label type
\* may be missing, or be there without a value
RawLabelPool ==
    {[species |-> <<"a">>, behavior |-> <<"x">>],
     [species |-> <<"b", "a">>, behavior |-> <<"x">>],
     [species |-> <<"a">>, behavior |-> <<>>],
     [species |-> <<>>, behavior |-> <<"x">>],
     [species |-> <<"a">>],
     [species |-> <<"b", "a">>],
     [species |-> <<>>],
     [behavior |-> <<"x">>]}

\* the sources create_from_source may be given: readable or not, with the
\* records the importer finds in them
Sources ==
    {[readable |-> FALSE, records |-> <<>>]}
      \cup {[readable |-> TRUE, records |-> inv] :
              inv \in UNION {InventoriesOfLen(n, RawLabelPool) : n \in 0..MaxIds}}

\* DatasetImporter().create(type, path).import_from_source(): the records of
\* the source, an ImportError for a source that cannot be read
import_from_source(source) ==
    IF source.readable
      THEN [raised |-> "None", value |-> source.records]
      ELSE [raised |-> "ImportError", value |-> <<>>]

\* the label types that are on at least one record
all_label_types(inv) == UNION {DOMAIN inv[k].labels : k \in DOMAIN inv}

\* LabelHandler.remove_not_all_label_types_present: a record without a value
\* for one of the label types is dropped; a SchemaError when no label type
\* is left
remove_not_all_label_types_present(inv) ==
    LET required == all_label_types(inv)
        complete(e) == \A t \in required :
                          t \in DOMAIN e.labels /\ e.labels[t] # <<>>
        kept == SelectSeq(inv, complete)
    IN  IF all_label_types(kept) = {}
          THEN [raised |-> "SchemaError", inv |-> kept]
          ELSE [raised |-> "None", inv |-> kept]

\* a bug the creation could have: the label handler is not asked to filter
create_from_source_unfiltered(source, inv) ==
    LET imported == import_from_source(source)
    IN  IF imported.raised # "None"
          THEN [raised |-> imported.raised, imported |-> <<>>, inv |-> inv]
          ELSE [raised |-> "None", imported |-> imported.value,
                inv |-> imported.value]

\* DatasetInventory.create_from_source (lines 50-55); inv is the inventory
\* before the call, imported is what the importer returned
create_from_source(source, inv) ==
    LET imported == import_from_source(source)
    IN  IF imported.raised # "None"
          THEN [raised |-> imported.raised, imported |-> <<>>, inv |-> inv]
          ELSE LET filtered == remove_not_all_label_types_present(imported.value)
               IN  [raised |-> filtered.raised, imported |-> imported.value,
                    inv |-> filtered.inv]

\* before create_from_source: self.data_inventory = None
InitCreate ==
    /\ RunNotStarted
    /\ data_inventory = <<>>
    /\ pre_inventory = <<>>
    /\ last_call = NoCall
    /\ raised = "None"
    /\ stats_log = NoLog

\* pre_inventory keeps what the importer returned
Create(source) ==
    LET out == create_from_source(source, data_inventory)
    IN  /\ data_inventory' = out.inv
        /\ raised' = out.raised
        /\ pre_inventory' = out.imported
        /\ last_call' = [op |-> "create_from_source", arg |-> 0]
        /\ UNCHANGED <<stats_log, run_vars>>

NextCreate == last_call = NoCall /\ \E source \in Sources : Create(source)

SpecCreate == InitCreate /\ [][NextCreate]_vars

\* ------------------------------------------------ inventory: the claims
SampleCalled == last_call.op = "randomly_remove_samples_to_percent"

RemoveCalled == last_call.op = "remove_record"

StatsCalled == last_call.op = "log_stats"

PIn01(p) == 0 <= p[1] /\ p[1] <= p[2]

\* every entry of inv is an entry of old: same id, same content
EntriesFrom(inv, old) == \A k \in DOMAIN inv : \E j \in DOMAIN old : inv[k] = old[j]

\* C1: after randomly_remove_samples_to_percent(p) with p in [0,1] on an
\* inventory of n records, the inventory holds exactly floor(n * p) records,
\* each of them a record of the inventory before the call, no id twice.
C1_SampleKeepsFloor ==
    (SampleCalled /\ PIn01(last_call.arg)) =>
        /\ raised = "None"
        /\ Len(data_inventory)
             = Floor(Len(pre_inventory) * last_call.arg[1], last_call.arg[2])
        /\ IsInjective(keys(data_inventory))
        /\ EntriesFrom(data_inventory, pre_inventory)

C1_Witness ==
    /\ SampleCalled
    /\ 2 * last_call.arg[1] = last_call.arg[2]
    /\ Len(pre_inventory) = 3
    /\ Len(data_inventory) = 1

\* C2: randomly_remove_samples_to_percent(p) with p outside [0,1] fails with
\* a range error and leaves the inventory as it was.
C2_OutOfRangeFails ==
    (SampleCalled /\ ~PIn01(last_call.arg)) =>
        /\ raised = "ValueError"
        /\ data_inventory = pre_inventory

\* C3: remove_record(id) with an id that is no member raises nothing and
\* leaves the inventory (ids and contents) as it was; removing the same id
\* once more changes nothing.
C3_RemoveNonMemberIsNoOp ==
    RemoveCalled =>
        /\ (last_call.arg \notin IdSet(pre_inventory) =>
              raised = "None" /\ data_inventory = pre_inventory)
        /\ remove_record(data_inventory, last_call.arg)
             = [raised |-> "None", inv |-> data_inventory]

C3_Witness ==
    /\ RemoveCalled
    /\ last_call.arg \notin IdSet(pre_inventory)
    /\ Len(pre_inventory) = 2
    /\ data_inventory = pre_inventory

\* the records that carry (at least one value for) label type t
RecordsCarrying(inv, t) ==
    {k \in DOMAIN inv : t \in DOMAIN inv[k].labels /\ inv[k].labels[t] # <<>>}

MultiLabelRecords(inv, t) ==
    {k \in RecordsCarrying(inv, t) : Len(inv[k].labels[t]) > 1}

\* the label values of type t in the order of the pass over the records
RECURSIVE ValuesInPassOrder(_, _)
ValuesInPassOrder(inv, t) ==
    IF inv = <<>>
      THEN <<>>
      ELSE (IF t \in DOMAIN Head(inv).labels THEN Head(inv).labels[t] ELSE <<>>)
             \o ValuesInPassOrder(Tail(inv), t)

FirstSeen(inv, t, label) ==
    LET flat == ValuesInPassOrder(inv, t)
    IN  MinOf({k \in DOMAIN flat : flat[k] = label})

\* the lines log_stats logged for label type t, in the order logged
LinesOf(t) == SelectSeq(stats_log.records, LAMBDA line : line.label_type = t)

LoggedCounts(t) == LET lines == LinesOf(t) IN [k \in DOMAIN lines |-> lines[k].records]

LoggedMultiple(t) ==
    IF \E k \in DOMAIN stats_log.multiple : stats_log.multiple[k].label_type = t
      THEN (stats_log.multiple[CHOOSE k \in DOMAIN stats_log.multiple :
                                 stats_log.multiple[k].label_type = t]).records
      ELSE 0

\* C4 as stated: the per-value counts of a label type sum to the number of
\* records carrying that label type, and the multi-label count of the type
\* is at most that number.
C4_CountsSumToRecords ==
    StatsCalled =>
        \A t \in LabelTypes :
            /\ SumSeq(LoggedCounts(t)) = Cardinality(RecordsCarrying(data_inventory, t))
            /\ LoggedMultiple(t) <= Cardinality(RecordsCarrying(data_inventory, t))

\* C4 amended: the per-value counts of a label type sum to the number of
\* label values the records carry for that type (a record counts once for
\* each of its values), which is the number of records carrying the type
\* when none of them has more than one value; the multi-label count is the
\* number of records with more than one value, at most the number of records.
C4_CountsSumToValues ==
    StatsCalled =>
        \A t \in LabelTypes :
            /\ SumSeq(LoggedCounts(t)) = Len(ValuesInPassOrder(data_inventory, t))
            /\ \A k \in DOMAIN LinesOf(t) :
                 LinesOf(t)[k].total = Len(ValuesInPassOrder(data_inventory, t))
            /\ (MultiLabelRecords(data_inventory, t) = {} =>
                  SumSeq(LoggedCounts(t))
                    = Cardinality(RecordsCarrying(data_inventory, t)))
            /\ LoggedMultiple(t) = Cardinality(MultiLabelRecords(data_inventory, t))
            /\ LoggedMultiple(t) <= Cardinality(RecordsCarrying(data_inventory, t))

C4_Witness ==
    /\ StatsCalled
    /\ Len(data_inventory) = 3
    /\ Cardinality(MultiLabelRecords(data_inventory, "species")) = 2
    /\ SumSeq(LoggedCounts("species")) = 5
    /\ LoggedMultiple("species") = 2

\* C5: within a label type the lines are logged in descending order of
\* count, equal counts in the order in which the values were first met in
\* the pass over the records; every value met is logged once.
C5_DescendingTiesFirstSeen ==
    StatsCalled =>
        \A t \in LabelTypes :
            LET lines == LinesOf(t)
            IN  /\ {lines[k].label : k \in DOMAIN lines}
                     = Range(ValuesInPassOrder(data_inventory, t))
                /\ \A i, j \in DOMAIN lines :
                     i < j =>
                       /\ lines[i].label # lines[j].label
                       /\ lines[i].records >= lines[j].records
                       /\ (lines[i].records = lines[j].records =>
                             FirstSeen(data_inventory, t, lines[i].label)
                               < FirstSeen(data_inventory, t, lines[j].label))

\* counts a:1, b:2, c:2 met in the order a, b, c are logged b, c, a
C5_Witness ==
    /\ StatsCalled
    /\ ValuesInPassOrder(data_inventory, "species") = <<"a", "b", "c", "b", "c">>
    /\ LET lines == LinesOf("species")
       IN  /\ [k \in DOMAIN lines |-> lines[k].label] = <<"b", "c", "a">>
           /\ LoggedCounts("species") = <<2, 2, 1>>

\* ============================================================ train.main
\* ------------------------------------------------------------ dictionaries
\* a Python dict with string keys is a function on the set of its keys

\* {**x, **y}: the keys of both, y's value where both have the key
dict_merge(x, y) ==
    [k \in DOMAIN x \cup DOMAIN y |-> IF k \in DOMAIN y THEN y[k] ELSE x[k]]

\* d[key] = value
dict_set(d, key, value) ==
    [k \in DOMAIN d \cup {key} |-> IF k = key THEN value ELSE d[k]]

\* ------------------------------------------------------------------ paths
\* a path is [dir, prefix, file, epoch, val_loss]: the file "<prefix><file>"
\* in directory dir; epoch and val_loss are the numbers formatted into the
\* name of an epoch checkpoint (0 otherwise)
DirArg(name, trailing) == [name |-> name, trailing |-> trailing]

\* os.path.join(dir, name): puts a separator between the two when dir lacks it
PathJoin(d, name) ==
    [dir |-> d.name, prefix |-> "", file |-> name, epoch |-> 0, val_loss |-> 0]

\* dir + name: without a trailing separator the file lands beside the directory
PathConcat(d, name) ==
    IF d.trailing
      THEN PathJoin(d, name)
      ELSE [dir |-> "parent", prefix |-> d.name, file |-> name,
            epoch |-> 0, val_loss |-> 0]

\* run_outputs_dir + 'model_epoch_{epoch:02d}_loss_{val_loss:.2f}.hdf5'
EpochCheckpointPath(d, epoch, val_loss) ==
    [PathConcat(d, "model_epoch_loss.hdf5") EXCEPT !.epoch = epoch,
                                                   !.val_loss = val_loss]

Exists(files, path) == path \in DOMAIN files

\* lines 409-410: where CALC IMAGE STATS exports the image processing settings
image_processing_export_path(a) == PathJoin(a.run_outputs_dir, "image_processing.json")

\* lines 611-612: the pre_processing_json the Predictor is given
pre_processing_json(a) == PathConcat(a.run_outputs_dir, "image_processing.json")

\* line 525: the filepath of checkpointer_best
checkpointer_best_filepath(a) == PathConcat(a.run_outputs_dir, "model_best.hdf5")

\* line 566: the model_source of copy_models_and_config_files
best_model_source(a) == PathConcat(a.run_outputs_dir, "model_best.hdf5")

\* lines 584-585
pred_output_json(a) == PathJoin(a.run_outputs_dir, "test_preds.json")

WriteFile(files, path, content) ==
    [q \in DOMAIN files \cup {path} |-> IF q = path THEN content ELSE files[q]]

\* a saved model: the epoch (0-based) and the validation loss it was saved
\* at; run tells the run that wrote the file ("this" or "earlier") and is
\* no part of the file
ModelFile(epoch, val_loss, run) ==
    [kind |-> "model", epoch |-> epoch, val_loss |-> val_loss, run |-> run]

\* -------------------------------------------------------------- the inputs
Keys == {"color_augmentation", "image_choice_for_sets", "output_width"}

\* lines 296-299; the six further keys go through the same loop
to_overwrite == Keys

\* the values config.yaml may give the keys in its image_processing section
DefaultValues ==
    [color_augmentation    |-> {"None", "full_randomized"},
     image_choice_for_sets |-> {"random", "grayscale_stacking"},
     output_width          |-> {"224"}]

\* the values config.yaml may give the keys in a model's image_processing
ModelValues ==
    [color_augmentation    |-> {"None", "little"},
     image_choice_for_sets |-> {"random", "grayscale_stacking"},
     output_width          |-> {"150"}]

\* the values of the command line options; "None" is an option not given
UserValues ==
    [color_augmentation    |-> {"None", "full_fast"},
     image_choice_for_sets |-> {"None", "random", "grayscale_stacking"},
     output_width          |-> {"None", "299"}]

\* the dictionaries that give some of the keys a value allowed by vals
PartialDicts(vals) ==
    {f \in UNION {[D -> UNION {vals[k] : k \in Keys}] : D \in SUBSET Keys} :
       \A k \in DOMAIN f : f[k] \in vals[k]}

TotalDicts(vals) == {f \in PartialDicts(vals) : DOMAIN f = Keys}

\* args['model_to_load']: what the path names
\*   kind: "none" (option not given), "file", "dir", "missing"
\*   hdf5: the path ends with '.hdf5'
\*   file: the checkpoint of model_dir it is, 0 when it is none of them
PathArg(kind, hdf5, file) == [kind |-> kind, hdf5 |-> hdf5, file |-> file]

NoPath == PathArg("none", FALSE, 0)

ModelToLoadArgs ==
    {NoPath, PathArg("file", TRUE, 0), PathArg("missing", FALSE, 0),
     PathArg("missing", TRUE, 0), PathArg("dir", FALSE, 0),
     PathArg("dir", TRUE, 0)}

\* the .hdf5 files of a directory: distinct names, distinct modification times
Directories ==
    {d \in SUBSET [name : 1..MaxCkpts, mtime : 1..MaxCkpts] :
       \A f, g \in d : (f.name = g.name \/ f.mtime = g.mtime) => f = g}

NoError == [stage |-> "None", exception |-> "None"]

Error(stage, exception) == [stage |-> stage, exception |-> exception]

\* np.Inf, the initial best of the callbacks
Inf == MaxLoss + 1

\* ---------------------------------------------------- Process Input
\* lines 300-302: for overwrite in to_overwrite: if args[..] is not None
overwrite_by_user(ip, a) ==
    LET given == {k \in to_overwrite : a[k] # "None"}
    IN  [k \in DOMAIN ip \cup given |-> IF k \in given THEN a[k] ELSE ip[k]]

\* a bug the rule could have: color_augmentation is left as it is
disable_color_augmentation_never(ip) ==
    IF \/ "image_choice_for_sets" \notin DOMAIN ip
       \/ /\ ip["image_choice_for_sets"] = "grayscale_stacking"
          /\ "color_augmentation" \notin DOMAIN ip
      THEN [raised |-> "KeyError", value |-> ip]
      ELSE [raised |-> "None", value |-> ip]

\* lines 306-312: disable color_augmentation for grayscale_stacking
disable_color_augmentation(ip) ==
    IF "image_choice_for_sets" \notin DOMAIN ip
      THEN [raised |-> "KeyError", value |-> ip]
      ELSE IF ip["image_choice_for_sets"] = "grayscale_stacking"
        THEN IF "color_augmentation" \notin DOMAIN ip
               THEN [raised |-> "KeyError", value |-> ip]
               ELSE IF ip["color_augmentation"] # "None"
                 THEN [raised |-> "None",
                       value  |-> dict_set(ip, "color_augmentation", "None")]
                 ELSE [raised |-> "None", value |-> ip]
        ELSE [raised |-> "None", value |-> ip]

\* lines 288-315: the image_processing dictionary main works with
effective_image_processing(cfg, a) ==
    LET image_processing_0     == cfg.image_processing
        image_processing_model == cfg.model_image_processing
        image_processing_1     == overwrite_by_user(image_processing_0, a)
        image_processing_2     == dict_merge(image_processing_model,
                                             image_processing_1)
        disabled               == disable_color_augmentation(image_processing_2)
    IN  IF disabled.raised # "None"
          THEN disabled
          ELSE IF "output_width" \notin DOMAIN disabled.value
            THEN [raised |-> "KeyError", value |-> disabled.value]
            ELSE disabled

Fail(stage, exception) ==
    /\ pc' = "failed"
    /\ run_error' = Error(stage, exception)

\* lines 279-341: load the config, merge the image processing options,
\* read the class mapping and save it to the run outputs, find the TFR files
Configure ==
    /\ pc = "configure"
    /\ stage_log' = Append(stage_log, "CONFIGURE")
    /\ LET eff == effective_image_processing(config_cfg, args)
       IN  \/ /\ eff.raised # "None"
              /\ Fail("CONFIGURE", eff.raised)
              /\ UNCHANGED <<image_processing, fs>>
           \/ /\ eff.raised = "None"
              /\ \/ /\ image_processing' = eff.value
                    /\ fs' = WriteFile(fs, PathJoin(args.run_outputs_dir,
                                                    "label_mappings.json"),
                                       [kind |-> "label_mappings"])
                    /\ pc' = "model_to_load"
                    /\ UNCHANGED run_error
                 \/ /\ Fail("CONFIGURE", "IOError")
                    /\ image_processing' = eff.value
                    /\ UNCHANGED fs
    /\ UNCHANGED <<argv, args, config_cfg, model_dir, train, inv_vars>>

\* find_files_with_ending(dir, '.hdf5'): the .hdf5 files of the directory
find_files_with_ending(dir) == dir

\* get_most_recent_file_from_files(files): the file modified last;
\* fails when there is no file
get_most_recent_file_from_files(files) ==
    IF files = {}
      THEN [raised |-> "NotFoundError", value |-> 0]
      ELSE [raised |-> "None",
            value  |-> (CHOOSE f \in files : \A g \in files : g.mtime <= f.mtime).name]

\* a bug the resolution could have: the directory is passed on as it is
ResolveModelToLoad_skip ==
    /\ pc = "model_to_load"
    /\ pc' = "calc_image_stats"
    /\ UNCHANGED <<argv, args, run_error, stage_log, config_cfg, model_dir,
                   image_processing, fs, train, inv_vars>>

\* lines 343-357: the path of the model to load when a directory is given
ResolveModelToLoad ==
    /\ pc = "model_to_load"
    /\ IF /\ args.model_to_load.kind # "none"
          /\ ~args.model_to_load.hdf5
          /\ args.model_to_load.kind = "dir"
         THEN LET model_files       == find_files_with_ending(model_dir)
                  most_recent_model == get_most_recent_file_from_files(model_files)
              IN  /\ stage_log' = Append(stage_log, "RESOLVE_CHECKPOINT")
                  /\ IF most_recent_model.raised # "None"
                       THEN /\ Fail("RESOLVE_CHECKPOINT", most_recent_model.raised)
                            /\ UNCHANGED args
                       ELSE /\ args' = [args EXCEPT !.model_to_load =
                                          PathArg("file", TRUE, most_recent_model.value)]
                            /\ pc' = "calc_image_stats"
                            /\ UNCHANGED run_error
         ELSE /\ pc' = "calc_image_stats"
              /\ UNCHANGED <<args, run_error, stage_log>>
    /\ UNCHANGED <<argv, config_cfg, model_dir, image_processing, fs, train, inv_vars>>

\* a bug the stage could have: its failure is logged and the run goes on
CalcImageStats_swallow ==
    /\ pc = "calc_image_stats"
    /\ stage_log' = Append(stage_log, "STATS")
    /\ run_error' = Error("STATS", "DatasetError")
    /\ pc' = "prepare_data_reader"
    /\ UNCHANGED <<argv, args, config_cfg, model_dir, image_processing, fs,
                   train, inv_vars>>

\* lines 359-410: image means and stdevs of a batch of training images,
\* added to image_processing and exported to image_processing.json
CalcImageStats ==
    /\ pc = "calc_image_stats"
    /\ stage_log' = Append(stage_log, "STATS")
    /\ \/ /\ Fail("STATS", "DatasetError")
          /\ UNCHANGED <<image_processing, fs>>
       \/ LET with_stats == dict_set(dict_set(image_processing,
                                              "image_means", "computed"),
                                     "image_stdevs", "computed")
          IN  /\ image_processing' = with_stats
              /\ fs' = WriteFile(fs, image_processing_export_path(args),
                                 [kind  |-> "image_processing",
                                  value |-> dict_set(with_stats, "is_training", "False")])
              /\ pc' = "prepare_data_reader"
              /\ UNCHANGED run_error
    /\ UNCHANGED <<argv, args, config_cfg, model_dir, train, inv_vars>>

\* lines 412-462: the input feeders and the batches per epoch
PrepareDataReader ==
    /\ pc = "prepare_data_reader"
    /\ stage_log' = Append(stage_log, "PREPARE")
    /\ \/ Fail("PREPARE", "DatasetError")
       \/ pc' = "create_model" /\ UNCHANGED run_error
    /\ UNCHANGED <<argv, args, config_cfg, model_dir, image_processing, fs, train, inv_vars>>

\* whether create_model has to read the model file path_of_model_to_load
LoadsModel(a) == a.continue_training \/ a.transfer_learning

\* lines 464-489: create_model(..., path_of_model_to_load=args['model_to_load'])
CreateModel ==
    /\ pc = "create_model"
    /\ \/ Fail("PREPARE", "ModelError") /\ UNCHANGED train
       \/ /\ LoadsModel(args) => args.model_to_load.kind = "file"
          /\ train' = [train EXCEPT !.model =
                         IF LoadsModel(args) THEN args.model_to_load ELSE NoPath]
          /\ pc' = "start_fit"
          /\ UNCHANGED run_error
    /\ UNCHANGED <<argv, args, config_cfg, model_dir, image_processing, stage_log, fs, inv_vars>>

\* the state of model.fit and of its callbacks before the first epoch
NewTrain ==
    [epoch |-> 0, val_losses |-> <<>>, stop_training |-> FALSE,
     es_wait |-> 0, es_best |-> Inf, ckpt_best |-> Inf, model |-> NoPath]

\* lines 491-555: the callbacks are created and model.fit starts:
\* epochs range(starting_epoch, max_epochs), on_train_begin of the callbacks
StartFit ==
    /\ pc = "start_fit"
    /\ stage_log' = Append(stage_log, "TRAIN")
    /\ train' = [NewTrain EXCEPT !.epoch = args.starting_epoch,
                                 !.model = train.model]
    /\ pc' = IF args.starting_epoch < args.max_epochs THEN "fit" ELSE "save_best_model"
    /\ UNCHANGED <<argv, args, config_cfg, model_dir, image_processing, run_error, fs, inv_vars>>

\* a bug early stopping could have: the patience is tested before the
\* epoch without improvement is counted
early_stopping_on_epoch_end_late(es, current, patience) ==
    IF current < es.best
      THEN [best |-> current, wait |-> 0, stop_training |-> FALSE]
      ELSE [best |-> es.best, wait |-> es.wait + 1,
            stop_training |-> es.wait >= patience]

\* lines 497-501: EarlyStopping(monitor='val_loss', min_delta=0, patience=..),
\* on_epoch_end: an improvement is a loss below the best by more than
\* min_delta; otherwise wait is counted up and training stops once it
\* reaches the patience
early_stopping_on_epoch_end(es, current, patience) ==
    IF current - 0 < es.best
      THEN [best |-> current, wait |-> 0, stop_training |-> FALSE]
      ELSE [best |-> es.best, wait |-> es.wait + 1,
            stop_training |-> es.wait + 1 >= patience]

\* lines 516-521: ModelCheckpoint(save_best_only=False, period=1),
\* on_epoch_end: a file named by epoch and loss after every epoch
checkpointer_on_epoch_end(files, a, epoch, val_loss) ==
    WriteFile(files, EpochCheckpointPath(a.run_outputs_dir, epoch + 1, val_loss),
              ModelFile(epoch, val_loss, "this"))

\* a bug the best-model checkpoint could have: save_best_only left off
checkpointer_best_save_all == FALSE

\* line 526: save_best_only=True
checkpointer_best_save_best_only == TRUE

\* lines 523-527: ModelCheckpoint(save_best_only=True), on_epoch_end:
\* model_best.hdf5 is written when the loss is below the best so far
checkpointer_best_on_epoch_end(files, a, best, epoch, val_loss) ==
    IF checkpointer_best_save_best_only
      THEN IF val_loss < best
             THEN [best  |-> val_loss,
                   files |-> WriteFile(files, checkpointer_best_filepath(a),
                                       ModelFile(epoch, val_loss, "this"))]
             ELSE [best |-> best, files |-> files]
      ELSE [best  |-> best,
            files |-> WriteFile(files, checkpointer_best_filepath(a),
                                ModelFile(epoch, val_loss, "this"))]

\* lines 548-555, one epoch of model.fit: training and validation, then the
\* callbacks in the order of callbacks_list, then the test of stop_training
TrainEpoch ==
    /\ pc = "fit"
    /\ \/ /\ Fail("TRAIN", "TrainingError")
          /\ UNCHANGED <<train, fs>>
       \/ \E val_loss \in 1..MaxLoss :
            LET es   == early_stopping_on_epoch_end(
                          [best |-> train.es_best, wait |-> train.es_wait],
                          val_loss, args.early_stopping_patience)
                fs1  == checkpointer_on_epoch_end(fs, args, train.epoch, val_loss)
                cb   == checkpointer_best_on_epoch_end(fs1, args, train.ckpt_best,
                                                       train.epoch, val_loss)
                stop == train.stop_training \/ es.stop_training
            IN  /\ train' = [train EXCEPT !.epoch = @ + 1,
                                          !.val_losses = Append(@, val_loss),
                                          !.stop_training = stop,
                                          !.es_wait = es.wait,
                                          !.es_best = es.best,
                                          !.ckpt_best = cb.best]
                /\ fs' = cb.files
                /\ pc' = IF stop \/ train.epoch + 1 >= args.max_epochs
                           THEN "save_best_model" ELSE "fit"
                /\ UNCHANGED run_error
    /\ UNCHANGED <<argv, args, config_cfg, model_dir, image_processing, stage_log, inv_vars>>

JsonFiles == {"label_mappings.json", "image_processing.json", "test_preds.json"}

\* copy_models_and_config_files: model_source to model_target, and the
\* files of files_path_source that end with copy_files to files_path_target
copy_models_and_config_files(files, model_source, model_target, files_path_source, files_path_target) ==
    IF ~Exists(files, model_source)
      THEN [raised |-> "IOError", files |-> files]
      ELSE LET with_model == WriteFile(files, model_target, files[model_source])
               config     == {q \in DOMAIN files :
                                /\ q.dir = files_path_source.name
                                /\ q.prefix = ""
                                /\ q.file \in JsonFiles}
               target(q)  == PathJoin(files_path_target, q.file)
               targets    == {target(q) : q \in config}
           IN  [raised |-> "None",
                files  |-> [q \in DOMAIN with_model \cup targets |->
                              IF q \in targets
                                THEN files[CHOOSE c \in config : target(c) = q]
                                ELSE with_model[q]]]

\* lines 343-345
best_model_save_path(a) == PathJoin(a.model_save_dir, "best_model.hdf5")

\* a bug the stage could have: a missing model_best.hdf5 is passed over
SaveBestModel_skip_missing ==
    /\ pc = "save_best_model"
    /\ stage_log' = Append(stage_log, "FINALIZE")
    /\ LET copied == copy_models_and_config_files(
                       fs, best_model_source(args),
                       best_model_save_path(args),
                       args.run_outputs_dir, args.model_save_dir)
       IN  /\ fs' = copied.files
           /\ pc' = "predict"
           /\ UNCHANGED run_error
    /\ UNCHANGED <<argv, args, config_cfg, model_dir, image_processing, train, inv_vars>>

\* lines 559-570: the best model and the .json files go to model_save_dir
SaveBestModel ==
    /\ pc = "save_best_model"
    /\ stage_log' = Append(stage_log, "FINALIZE")
    /\ LET copied == copy_models_and_config_files(
                       fs, best_model_source(args),
                       best_model_save_path(args),
                       args.run_outputs_dir, args.model_save_dir)
       IN  IF copied.raised # "None"
             THEN Fail("FINALIZE", copied.raised) /\ UNCHANGED fs
             ELSE /\ fs' = copied.files
                  /\ pc' = "predict"
                  /\ UNCHANGED run_error
    /\ UNCHANGED <<argv, args, config_cfg, model_dir, image_processing, train, inv_vars>>

\* Predictor(model_path, class_mapping_json, pre_processing_json) and
\* predict_from_dataset(.., output_file): the model and the pre-processing
\* settings are read, the predictions are written to output_file; a file
\* that is missing is an IOError
predict_from_dataset(files, model_path, pre_processing, output_file) ==
    IF ~Exists(files, model_path) \/ ~Exists(files, pre_processing)
      THEN [raised |-> "IOError", files |-> files]
      ELSE [raised |-> "None",
            files  |-> WriteFile(files, output_file,
                                 [kind  |-> "predictions",
                                  model |-> files[model_path],
                                  value |-> files[pre_processing].value])]

\* a bug the predictions could have: they are exported to the model save
\* directory, under the name of the best model
Predict_to_model_save_dir ==
    /\ pc = "predict"
    /\ args.test_tfr_path \notin {"None", ""}
    /\ stage_log' = Append(stage_log, "PREDICT")
    /\ fs' = WriteFile(fs, best_model_save_path(args), [kind |-> "predictions"])
    /\ pc' = "done"
    /\ UNCHANGED <<argv, args, config_cfg, model_dir, image_processing, train,
                   run_error, inv_vars>>

\* lines 572-620: predictions on the test data, when a test path is given
Predict ==
    /\ pc = "predict"
    /\ IF args.test_tfr_path = "None"
         THEN \* len(None)
              /\ Fail("PREDICT_TEST", "TypeError")
              /\ UNCHANGED <<stage_log, fs>>
         ELSE IF args.test_tfr_path = ""
           THEN /\ pc' = "done"
                /\ UNCHANGED <<run_error, stage_log, fs>>
           ELSE /\ stage_log' = Append(stage_log, "PREDICT")
                /\ \/ /\ Fail("PREDICT", "PredictError")
                      /\ UNCHANGED fs
                   \/ LET out == predict_from_dataset(
                                   fs, best_model_save_path(args),
                                   pre_processing_json(args),
                                   pred_output_json(args))
                      IN  IF out.raised # "None"
                            THEN Fail("PREDICT", out.raised) /\ UNCHANGED fs
                            ELSE /\ fs' = out.files
                                 /\ pc' = "done"
                                 /\ UNCHANGED run_error
    /\ UNCHANGED <<argv, args, config_cfg, model_dir, image_processing, train, inv_vars>>

\* ------------------------------------------------------------- the runs
CompleteCfg ==
    [image_processing |->
       [color_augmentation |-> "full_randomized",
        image_choice_for_sets |-> "random", output_width |-> "224"],
     model_image_processing |-> [output_width |-> "150"]]

BaseArgs ==
    [color_augmentation |-> "None", image_choice_for_sets |-> "None",
     output_width |-> "None", model_to_load |-> NoPath,
     continue_training |-> FALSE, transfer_learning |-> FALSE,
     max_epochs |-> 1, starting_epoch |-> 0, early_stopping_patience |-> 1,
     test_tfr_path |-> "test", run_outputs_dir |-> DirArg("run_outputs", TRUE),
     model_save_dir |-> DirArg("model_save", TRUE)]

\* runs that differ in the configuration layers
ConfigRuns ==
    {[a |-> [BaseArgs EXCEPT !.color_augmentation = u["color_augmentation"],
                             !.image_choice_for_sets = u["image_choice_for_sets"],
                             !.output_width = u["output_width"]],
      cfg |-> [image_processing |-> d, model_image_processing |-> m],
      dir |-> {}] :
     u \in TotalDicts(UserValues), d \in PartialDicts(DefaultValues),
     m \in PartialDicts(ModelValues)}

\* runs that differ in the model to load
LoadRuns ==
    {[a |-> [BaseArgs EXCEPT !.model_to_load = p, !.continue_training = c,
                             !.transfer_learning = t],
      cfg |-> CompleteCfg,
      dir |-> d] :
     p \in ModelToLoadArgs, c \in BOOLEAN, t \in BOOLEAN,
     d \in Directories}

\* runs that differ in the epochs and in the patience of early stopping
TrainRuns ==
    {[a |-> [BaseArgs EXCEPT !.max_epochs = e, !.starting_epoch = s,
                             !.early_stopping_patience = pt],
      cfg |-> CompleteCfg,
      dir |-> {}] :
     e \in 0..MaxEpochs, s \in 0..1, pt \in 0..MaxPatience}

\* runs that differ in the output directory and in the test data
OutputRuns ==
    {[a |-> [BaseArgs EXCEPT !.test_tfr_path = tp,
                             !.run_outputs_dir = DirArg("run_outputs", tr)],
      cfg |-> CompleteCfg,
      dir |-> {}] :
     tp \in {"None", "", "test"}, tr \in BOOLEAN}

\* the files an earlier run with the same run_outputs_dir has left: the
\* model_best.hdf5 its checkpointer_best wrote
EarlierFiles(a) ==
    {[q \in {checkpointer_best_filepath(a)} |-> ModelFile(0, v, "earlier")] :
       v \in 1..MaxLoss}

\* runs that continue the training of an earlier run
ContinueRuns ==
    UNION {{[a |-> a, cfg |-> CompleteCfg, dir |-> {}, files |-> f] :
              f \in EarlierFiles(a)} :
           a \in {[BaseArgs EXCEPT !.continue_training = TRUE,
                                   !.model_to_load = PathArg("file", TRUE, 0),
                                   !.starting_epoch = s, !.max_epochs = e,
                                   !.run_outputs_dir = DirArg("run_outputs", tr)] :
                    s \in 0..1, e \in 0..2, tr \in BOOLEAN}}

InitRun ==
    /\ \E r \in ConfigRuns \cup LoadRuns \cup TrainRuns \cup OutputRuns
                 \cup ContinueRuns :
         /\ args = r.a
         /\ argv = r.a
         /\ config_cfg = r.cfg
         /\ model_dir = (IF r.a.model_to_load.kind = "dir" THEN r.dir ELSE {})
         /\ fs = (IF "files" \in DOMAIN r THEN r.files ELSE <<>>)
    /\ image_processing = <<>>
    /\ pc = "configure"
    /\ run_error = NoError
    /\ stage_log = <<>>
    /\ train = NewTrain
    /\ data_inventory = <<>> /\ pre_inventory = <<>> /\ last_call = NoCall
    /\ raised = "None" /\ stats_log = NoLog

NextRun ==
    \/ Configure
    \/ ResolveModelToLoad
    \/ CalcImageStats
    \/ PrepareDataReader
    \/ CreateModel
    \/ StartFit
    \/ TrainEpoch
    \/ SaveBestModel
    \/ Predict

Spec == InitRun /\ [][NextRun]_vars

\* ----------------------------------------------------- the run: the claims
\* Configure has computed the image_processing dictionary
ConfigureDone ==
    /\ pc # "configure"
    /\ ~(run_error.stage = "CONFIGURE" /\ run_error.exception = "KeyError")

UserGives(k) == argv[k] # "None"

ModelGives(k) == k \in DOMAIN config_cfg.model_image_processing

DefaultGives(k) == k \in DOMAIN config_cfg.image_processing

\* the value of key k in the layer of the highest priority that has it:
\* user overrides, then model-specific defaults, then built-in defaults
LayeredValue(k) ==
    IF UserGives(k) THEN argv[k]
    ELSE IF ModelGives(k) THEN config_cfg.model_image_processing[k]
    ELSE config_cfg.image_processing[k]

\* the incompatibility rule took the value of color_augmentation away
DisabledByRule(k) ==
    /\ k = "color_augmentation"
    /\ image_processing["image_choice_for_sets"] = "grayscale_stacking"
    /\ image_processing[k] = "None"

\* C6: the effective value of every key is the value of the layer of the
\* highest priority that defines it, built-in defaults < model-specific
\* defaults < user overrides (color_augmentation aside where the
\* incompatibility rule of C7 disabled it).
C6_LayersMergeInPriorityOrder ==
    ConfigureDone =>
        \A k \in Keys :
            (UserGives(k) \/ ModelGives(k) \/ DefaultGives(k)) =>
                /\ k \in DOMAIN image_processing
                /\ image_processing[k] = LayeredValue(k) \/ DisabledByRule(k)

GrayscaleWithoutColor(ip) ==
    ("image_choice_for_sets" \in DOMAIN ip
       /\ ip["image_choice_for_sets"] = "grayscale_stacking") =>
        ("color_augmentation" \in DOMAIN ip /\ ip["color_augmentation"] = "None")

\* C7: once CONFIGURE has computed the effective configuration, and in
\* every image-processing file written later, color_augmentation is None
\* whenever image_choice_for_sets is 'grayscale_stacking'.
C7_GrayscaleDisablesColorAugmentation ==
    ConfigureDone =>
        /\ GrayscaleWithoutColor(image_processing)
        /\ \A q \in DOMAIN fs :
             fs[q].kind = "image_processing" => GrayscaleWithoutColor(fs[q].value)

C7_Witness ==
    /\ pc = "done"
    /\ argv["color_augmentation"] = "full_fast"
    /\ argv["image_choice_for_sets"] = "None"
    /\ DefaultGives("color_augmentation") /\ ModelGives("color_augmentation")
    /\ config_cfg.image_processing["color_augmentation"] = "full_randomized"
    /\ config_cfg.model_image_processing["color_augmentation"] = "little"
    /\ image_processing["image_choice_for_sets"] = "grayscale_stacking"
    /\ image_processing["color_augmentation"] = "None"
    /\ Exists(fs, PathJoin(args.model_save_dir, "image_processing.json"))

\* lines 343-357 have run
ResolveDone ==
    /\ pc \notin {"configure", "model_to_load"}
    /\ run_error.stage # "CONFIGURE"

\* the file of a directory with the greatest modification time
Newest(dir) ==
    (CHOOSE f \in dir : f.mtime = MaxOf({g.mtime : g \in dir})).name

\* create_model has returned the model
ModelCreated == pc \in {"start_fit", "fit", "save_best_model", "predict", "done"}

ResolvedToNewest ==
    IF model_dir = {}
      THEN /\ pc = "failed"
           /\ run_error = Error("RESOLVE_CHECKPOINT", "NotFoundError")
      ELSE /\ args.model_to_load = PathArg("file", TRUE, Newest(model_dir))
           /\ ModelCreated => train.model = args.model_to_load

BestBefore(h, k) == MinOf({Inf} \cup {h[j] : j \in 1..(k - 1)})

Improves(h, k) == h[k] < BestBefore(h, k)

\* the length of the run of epochs without improvement that ends the history
TrailingNonImproving(h) ==
    Len(h) - MaxOf({0} \cup {k \in DOMAIN h : Improves(h, k)})

Patience == args.early_stopping_patience

MaxInt(a, b) == IF a >= b THEN a ELSE b

StageRank(stage) ==
    CASE stage = "CONFIGURE" -> 1
      [] stage = "RESOLVE_CHECKPOINT" -> 2
      [] stage = "STATS" -> 3
      [] stage = "PREPARE" -> 4
      [] stage = "TRAIN" -> 5
      [] stage = "FINALIZE" -> 6
      [] stage = "PREDICT" -> 7

MainStages == <<"CONFIGURE", "STATS", "PREPARE", "TRAIN", "FINALIZE", "PREDICT">>

StagesEntered == SelectSeq(stage_log, LAMBDA st : st # "RESOLVE_CHECKPOINT")

\* the stages entered are the first ones of the pipeline, in its order
StagesInOrder ==
    \A i \in DOMAIN StagesEntered : StagesEntered[i] = MainStages[i]

\* a failure ends the run in the stage that failed
FailureHalts ==
    /\ pc = "failed" <=> run_error # NoError
    /\ run_error # NoError =>
         \/ run_error.stage = stage_log[Len(stage_log)]
         \/ /\ run_error.stage = "PREDICT_TEST"
            /\ stage_log[Len(stage_log)] = "FINALIZE"

\* C10 as stated: the stages are entered in the order CONFIGURE, STATS,
\* PREPARE, TRAIN, FINALIZE, PREDICT, the checkpoint-loading resolution being
\* work of PREPARE and so after STATS; a failure halts the run.
C10_StagesInSpecOrder ==
    /\ StagesInOrder
    /\ FailureHalts
    /\ \A i \in DOMAIN stage_log :
         stage_log[i] = "RESOLVE_CHECKPOINT" =>
           /\ \E j \in 1..(i - 1) : stage_log[j] = "STATS"
           /\ \A j \in 1..(i - 1) : StageRank(stage_log[j]) <= StageRank("PREPARE")

\* C10 amended: the stages are entered in that order, each after the one
\* before it has completed, with the checkpoint-loading resolution done right
\* after CONFIGURE and before STATS; a failure halts the run in the stage
\* that failed and no later stage is entered.
C10_StagesInCodeOrder ==
    /\ StagesInOrder
    /\ FailureHalts
    /\ \A i \in DOMAIN stage_log :
         stage_log[i] = "RESOLVE_CHECKPOINT" =>
           /\ i = 2 /\ stage_log[1] = "CONFIGURE"
    /\ pc = "done" => Len(StagesEntered) \in {5, 6}

C10_Witness ==
    /\ pc = "done"
    /\ stage_log = <<"CONFIGURE", "RESOLVE_CHECKPOINT", "STATS", "PREPARE",
                     "TRAIN", "FINALIZE", "PREDICT">>

\* ------------------------------------------------- the artifacts: the claims
StageEntered(stage) == \E i \in DOMAIN stage_log : stage_log[i] = stage

StageCompleted(stage) == StageEntered(stage) /\ run_error.stage # stage

\* the .json files main has written to run_outputs_dir before SAVE BEST MODEL
SideFiles == {"label_mappings.json", "image_processing.json"}

\* the model at the save path is the model_best.hdf5 of checkpointer_best,
\* and the side-files of run_outputs_dir are in model_save_dir
BestModelCopied ==
    /\ Exists(fs, checkpointer_best_filepath(args))
    /\ Exists(fs, best_model_save_path(args))
    /\ fs[best_model_save_path(args)] = fs[checkpointer_best_filepath(args)]
    /\ \A name \in SideFiles :
         /\ Exists(fs, PathJoin(args.run_outputs_dir, name))
         /\ Exists(fs, PathJoin(args.model_save_dir, name))
         /\ fs[PathJoin(args.model_save_dir, name)]
              = fs[PathJoin(args.run_outputs_dir, name)]

\* C11: once FINALIZE has completed, the best model of checkpointer_best is
\* at the model save path and the .json side-files are beside it; when
\* there is no model_best.hdf5 at the end of TRAIN (as after zero epochs),
\* FINALIZE fails with an IOError that ends the run.
C11_FinalizeCopiesOrFails ==
    /\ StageCompleted("FINALIZE") => BestModelCopied
    /\ (StageEntered("FINALIZE") /\ ~Exists(fs, checkpointer_best_filepath(args))) =>
         /\ pc = "failed"
         /\ run_error = Error("FINALIZE", "IOError")
         /\ ~Exists(fs, best_model_save_path(args))

\* no epoch is run, nothing is there to copy
C11_Witness ==
    /\ pc = "failed"
    /\ run_error = Error("FINALIZE", "IOError")
    /\ args.max_epochs = 0
    /\ train.val_losses = <<>>
    /\ stage_log = <<"CONFIGURE", "STATS", "PREPARE", "TRAIN", "FINALIZE">>

\* the files of model_save_dir, the output path of FINALIZE
AtOutputPath(files) ==
    {q \in DOMAIN files : q.dir = args.model_save_dir.name /\ q.prefix = ""}

\* a step leaves every file of the output path as it is
OutputPathKept ==
    \A q \in AtOutputPath(fs) : q \in DOMAIN fs' /\ fs'[q] = fs[q]

\* C12: PREDICT is entered only after FINALIZE has completed, and no step
\* of PREDICT, succeeding or failing, changes or removes the best model or
\* the side-files FINALIZE has put at the output path.
C12_PredictKeepsFinalized ==
    /\ [](StageEntered("PREDICT") => (StageCompleted("FINALIZE") /\ BestModelCopied))
    /\ [][pc = "predict" => OutputPathKept]_vars

\* PREDICT has failed, the finalized model is where FINALIZE put it
C12_Witness ==
    /\ pc = "failed"
    /\ run_error.stage = "PREDICT"
    /\ stage_log[Len(stage_log)] = "PREDICT"
    /\ BestModelCopied
    /\ fs[best_model_save_path(args)].kind = "model"

\* ------------------------------------------ create_from_source: the claim
CreateCalled == last_call.op = "create_from_source"

\* the label types observed on at least one record of the import
ObservedTypes == UNION {DOMAIN pre_inventory[k].labels : k \in DOMAIN pre_inventory}

\* record e has at least one value for label type t
Carries(e, t) == t \in DOMAIN e.labels /\ e.labels[t] # <<>>

\* C13: after create_from_source has completed, every record of the
\* inventory has at least one value for every label type observed on a
\* record of the import, every record dropped lacks a value for one of
\* these label types, and the records kept are as they were imported.
C13_CompleteRecordsKept ==
    (CreateCalled /\ raised = "None") =>
        /\ \A k \in DOMAIN data_inventory :
             \A t \in ObservedTypes : Carries(data_inventory[k], t)
        /\ \A j \in DOMAIN pre_inventory :
             pre_inventory[j].id \notin IdSet(data_inventory) =>
               \E t \in ObservedTypes : ~Carries(pre_inventory[j], t)
        /\ EntriesFrom(data_inventory, pre_inventory)
        /\ IsInjective(keys(data_inventory))

\* three records imported, one without a behavior and one with a species
\* that has no value: the complete one is kept
C13_Witness ==
    /\ CreateCalled /\ raised = "None"
    /\ Len(pre_inventory) = 3
    /\ pre_inventory[1].labels = [species |-> <<"a">>]
    /\ pre_inventory[2].labels = [species |-> <<"b", "a">>, behavior |-> <<"x">>]
    /\ pre_inventory[3].labels = [species |-> <<>>, behavior |-> <<"x">>]
    /\ data_inventory = <<pre_inventory[2]>>

\* ---------------------------------------------- the checkpoints: the claims
\* the epoch (0-based) of the k-th epoch of this fit
EpochOf(k) == args.starting_epoch + k - 1

\* the first epoch of the fit with the lowest validation loss
BestEpochIndex(h) ==
    MinOf({k \in DOMAIN h : \A j \in DOMAIN h : h[k] <= h[j]})

\* model_best.hdf5 is the model of the epoch with the lowest loss so far
BestIsMinimum(h) ==
    /\ Exists(fs, checkpointer_best_filepath(args))
    /\ fs[checkpointer_best_filepath(args)]
         = ModelFile(EpochOf(BestEpochIndex(h)), h[BestEpochIndex(h)], "this")

\* every epoch of the fit has left its checkpoint
EveryEpochSaved(h) ==
    \A k \in DOMAIN h :
        LET path == EpochCheckpointPath(args.run_outputs_dir, EpochOf(k) + 1, h[k])
        IN  /\ Exists(fs, path)
            /\ fs[path] = ModelFile(EpochOf(k), h[k], "this")

\* a step writes model_best.hdf5
BestWritten ==
    LET path == checkpointer_best_filepath(args)
    IN  /\ Exists(fs', path)
        /\ ~Exists(fs, path) \/ fs'[path] # fs[path]

\* the epoch a step ends has a loss below the loss of every epoch before it
StrictlyBest ==
    /\ pc = "fit"
    /\ Len(train'.val_losses) = Len(train.val_losses) + 1
    /\ \A j \in DOMAIN train.val_losses :
         train'.val_losses[Len(train'.val_losses)] < train.val_losses[j]

\* C14: during TRAIN model_best.hdf5 is written at the end of an epoch only
\* if the validation loss of the epoch is strictly below that of every
\* epoch before it, so after any epochs it is the model of the epoch with
\* the lowest loss seen; the epoch checkpoints are written after every
\* epoch, whatever the loss.
C14_BestOnlyOnStrictImprovement ==
    /\ [](train.val_losses # <<>> =>
            (BestIsMinimum(train.val_losses) /\ EveryEpochSaved(train.val_losses)))
    /\ [][BestWritten => StrictlyBest]_vars

\* losses 2, 1, 1: the best model is the one of the second epoch
C14_Witness ==
    /\ train.val_losses = <<2, 1, 1>>
    /\ args.starting_epoch = 0
    /\ fs[checkpointer_best_filepath(args)] = ModelFile(1, 1, "this")
    /\ Exists(fs, EpochCheckpointPath(args.run_outputs_dir, 3, 1))

\* ------------------------------------------------- the last stages: claims
\* C15: with no test path given, a run whose stages up to FINALIZE have all
\* succeeded skips PREDICT and ends without an error.
C15_NoTestPathSkipsPredict ==
    (argv.test_tfr_path = "None" /\ StageCompleted("FINALIZE")) =>
        /\ run_error = NoError
        /\ pc \in {"predict", "done"}
        /\ ~StageEntered("PREDICT")

\* C16: whatever run_outputs_dir is, with or without a separator at its
\* end, a later stage reads an artifact at the path an earlier stage wrote
\* it to: the image_processing.json the Predictor is given is the one STATS
\* exported, and the model FINALIZE copies is the one checkpointer_best
\* wrote.
C16_ReadsWhereWritten ==
    /\ StageCompleted("STATS") =>
         /\ Exists(fs, pre_processing_json(args))
         /\ fs[pre_processing_json(args)] = fs[image_processing_export_path(args)]
    /\ best_model_source(args) = checkpointer_best_filepath(args)
    /\ StageCompleted("FINALIZE") => BestModelCopied
    /\ run_error # Error("PREDICT", "IOError")

\* C17: the model FINALIZE has copied to the model save path was written by
\* checkpointer_best during TRAIN of this run, never by an earlier run.
C17_FinalizedModelIsOfThisRun ==
    StageCompleted("FINALIZE") =>
        /\ Exists(fs, best_model_save_path(args))
        /\ fs[best_model_save_path(args)].run = "this"

====
